---- MODULE Spec2Model ----
(***************************************************************************)
(* A model of the path accessor of go-lookup (src/lookup.go).              *)
(*                                                                         *)
(* Strings (paths, segments, field names, map keys, scalar payloads) are   *)
(* sequences of one-character strings, so that splitting, bracket parsing, *)
(* integer conversion and case folding are computed and not assumed.       *)
(* A reflect.Value is a record [kind, ty, sc, keys, elems, ro]; a          *)
(* reflect.Type is a record [k, name, key, elem].                          *)
(* A call result is [tag, val, err] with tag "ok", "err" or "panic".       *)
(***************************************************************************)
EXTENDS Integers, Sequences, FiniteSets, TLC

(***************************************************************************)
(* Bounds of the model.                                                    *)
(***************************************************************************)
\* Longest generated slice of records.
MaxLen == 2
\* Largest number of segments of a generated path.
MaxSegs == 2

(***************************************************************************)
(* Characters and strings.                                                 *)
(***************************************************************************)
UpperChars == <<"A","B","C","D","E","F","G","H","I","J","K","L","M",
                "N","O","P","Q","R","S","T","U","V","W","X","Y","Z">>
LowerChars == <<"a","b","c","d","e","f","g","h","i","j","k","l","m",
                "n","o","p","q","r","s","t","u","v","w","x","y","z">>
DigitChars == <<"0","1","2","3","4","5","6","7","8","9">>

IsUpper(c) == \E i \in 1..Len(UpperChars) : UpperChars[i] = c
IsDigit(c) == \E i \in 1..Len(DigitChars) : DigitChars[i] = c
DigitVal(c) == (CHOOSE i \in 1..Len(DigitChars) : DigitChars[i] = c) - 1

\* unicode.SimpleFold restricted to ASCII letters: the canonical (lower) form.
FoldChar(c) ==
    IF IsUpper(c)
    THEN LowerChars[CHOOSE i \in 1..Len(UpperChars) : UpperChars[i] = c]
    ELSE c

\* strings.EqualFold
EqualFold(a, b) ==
    /\ Len(a) = Len(b)
    /\ \A i \in 1..Len(a) : FoldChar(a[i]) = FoldChar(b[i])

\* strings.Index(s, c) for a one-character c: 0-based, -1 when absent.
StrIndex(s, c) ==
    IF \E i \in 1..Len(s) : s[i] = c
    THEN (CHOOSE i \in 1..Len(s) : s[i] = c /\ \A j \in 1..(i-1) : s[j] # c) - 1
    ELSE -1

\* Go's s[lo:hi] with 0-based bounds (callers ensure lo <= hi <= len).
Slice(s, lo, hi) == SubSeq(s, lo + 1, hi)

RECURSIVE DigitsValue(_)
DigitsValue(s) ==
    IF Len(s) = 0 THEN 0
    ELSE 10 * DigitsValue(SubSeq(s, 1, Len(s) - 1)) + DigitVal(s[Len(s)])

\* strconv.Atoi: an optional sign followed by one or more decimal digits.
Atoi(s) ==
    LET signed == Len(s) > 0 /\ s[1] \in {"+", "-"}
        body   == IF signed THEN Tail(s) ELSE s
    IN  IF Len(body) = 0 \/ \E i \in 1..Len(body) : ~IsDigit(body[i])
        THEN [ok |-> FALSE, n |-> 0]
        ELSE [ok |-> TRUE,
              n  |-> IF signed /\ s[1] = "-" THEN 0 - DigitsValue(body)
                     ELSE DigitsValue(body)]

\* strings.Split(path, SplitToken) for the one-character token ".".
RECURSIVE Split(_)
Split(s) ==
    LET d == StrIndex(s, ".")
    IN  IF d = -1 THEN <<s>>
        ELSE <<Slice(s, 0, d)>> \o Split(Slice(s, d + 1, Len(s)))

(***************************************************************************)
(* reflect.Type.                                                           *)
(***************************************************************************)
Ty(k, name) == [k |-> k, name |-> name, key |-> <<>>, elem |-> <<>>]
NoType      == Ty("Invalid", "")
TString     == Ty("String", "string")
TInt        == Ty("Int", "int")
TFloat64    == Ty("Float64", "float64")
TMyKey      == Ty("String", "MyKey")
TInterface  == Ty("Interface", "interface{}")
TStruct(name) == Ty("Struct", name)
TMyStruct   == TStruct("MyStruct")
TCase       == TStruct("Case")

\* reflect.SliceOf, reflect.PtrTo and the map type constructor.
SliceOf(t)  == [k |-> "Slice", name |-> "", key |-> <<>>, elem |-> <<t>>]
PtrTo(t)    == [k |-> "Ptr", name |-> "", key |-> <<>>, elem |-> <<t>>]
MapOf(kt, t) == [k |-> "Map", name |-> "", key |-> <<kt>>, elem |-> <<t>>]

\* reflect.Type.Elem (of a slice, map or pointer type).
TypeElem(t) == t.elem[1]

FieldDecl(n, t) == [name |-> n, ty |-> t]

\* The declared fields of the record types, in declaration order:
\* MyStruct {String, Map, Nested, StructSlice, Interface, JSONString} as
\* S, M, N, L, I, J; caseFixtureStruct {Foo, TestField, Testfield, testField}
\* as F, TF, Tf, tF.
StructFields(name) ==
    CASE name = "MyStruct" ->
           << FieldDecl(<<"S">>, TString),
              FieldDecl(<<"M">>, MapOf(TString, TInt)),
              FieldDecl(<<"N">>, PtrTo(TMyStruct)),
              FieldDecl(<<"L">>, SliceOf(PtrTo(TMyStruct))),
              FieldDecl(<<"I">>, TInterface),
              FieldDecl(<<"J">>, TString) >>
      [] name = "Case" ->
           << FieldDecl(<<"F">>, TInt),
              FieldDecl(<<"T","F">>, TInt),
              FieldDecl(<<"T","f">>, TInt),
              FieldDecl(<<"t","F">>, TInt) >>
      [] OTHER -> << >>

(***************************************************************************)
(* reflect.Value.                                                          *)
(***************************************************************************)
Invalid == [kind |-> "Invalid", ty |-> NoType, sc |-> <<>>, keys |-> <<>>,
            elems |-> <<>>, ro |-> FALSE]
Scalar(t, s) == [kind |-> t.k, ty |-> t, sc |-> s, keys |-> <<>>,
                 elems |-> <<>>, ro |-> FALSE]
Str(s)   == Scalar(TString, s)
IntV(s)  == Scalar(TInt, s)
StructV(t, vals) == [kind |-> "Struct", ty |-> t, sc |-> <<>>, keys |-> <<>>,
                     elems |-> vals, ro |-> FALSE]
MapV(t, ks, vals) == [kind |-> "Map", ty |-> t, sc |-> <<>>, keys |-> ks,
                      elems |-> vals, ro |-> FALSE]
SliceV(t, vals) == [kind |-> "Slice", ty |-> t, sc |-> <<>>, keys |-> <<>>,
                    elems |-> vals, ro |-> FALSE]
\* A pointer to v, and the nil pointer of pointer type t.
PtrV(v)   == [kind |-> "Ptr", ty |-> PtrTo(v.ty), sc |-> <<>>, keys |-> <<>>,
              elems |-> <<v>>, ro |-> FALSE]
NilPtr(t) == [kind |-> "Ptr", ty |-> t, sc |-> <<>>, keys |-> <<>>,
              elems |-> <<>>, ro |-> FALSE]
\* An interface{} slot holding v, and the nil interface{}.
IfaceV(v) == [kind |-> "Interface", ty |-> TInterface, sc |-> <<>>,
              keys |-> <<>>, elems |-> <<v>>, ro |-> FALSE]
NilIface  == [kind |-> "Interface", ty |-> TInterface, sc |-> <<>>,
              keys |-> <<>>, elems |-> <<>>, ro |-> FALSE]

IsValid(v) == v.kind # "Invalid"
\* A value read through an unexported field is read-only, and so is
\* everything reached from it.
Derived(c, parent, unexported) == [c EXCEPT !.ro = parent.ro \/ unexported]
\* Value.Elem of a pointer or interface: the zero Value when nil.
Elem(v) == IF Len(v.elems) = 0 THEN Invalid ELSE Derived(v.elems[1], v, FALSE)
\* Value.Len of a slice or map.
VLen(v) == Len(v.elems)
\* Value.Index(i), 0-based, of a slice (the caller ensures 0 <= i < Len).
Index(v, i) == Derived(v.elems[i + 1], v, FALSE)
\* Value.Field(i), here 1-based.
Field(v, i) ==
    Derived(v.elems[i], v, ~IsUpper(StructFields(v.ty.name)[i].name[1]))
NumField(v) == Len(StructFields(v.ty.name))
\* Value.FieldByName: exact match on the declared name.
FieldByName(v, key) ==
    LET fs == StructFields(v.ty.name)
    IN  IF \E i \in 1..Len(fs) : fs[i].name = key
        THEN Field(v, CHOOSE i \in 1..Len(fs) : fs[i].name = key)
        ELSE Invalid
\* Type.FieldByName
TypeFieldByName(t, key) ==
    LET fs == StructFields(t.name)
    IN  IF \E i \in 1..Len(fs) : fs[i].name = key
        THEN [ok |-> TRUE,
              ty |-> fs[CHOOSE i \in 1..Len(fs) : fs[i].name = key].ty]
        ELSE [ok |-> FALSE, ty |-> NoType]
\* Value.MapIndex: the zero Value when the key is absent.
MapIndex(v, key) ==
    IF \E i \in 1..Len(v.keys) : v.keys[i] = key
    THEN Derived(v.elems[CHOOSE i \in 1..Len(v.keys) : v.keys[i] = key], v, FALSE)
    ELSE Invalid
\* Value.Interface followed by reflect.ValueOf: the dynamic value of an
\* interface (the zero Value for nil), any other value as it is.
\* Value.Interface panics on the zero Value and on a read-only value.
CanInterface(v) == IsValid(v) /\ ~v.ro
ValueOfInterface(v) == IF v.kind = "Interface" THEN Elem(v) ELSE v

(***************************************************************************)
(* Results: (reflect.Value, error) or a panic.                             *)
(***************************************************************************)
Ok(v)    == [tag |-> "ok", val |-> v, err |-> "none"]
Err(e)   == [tag |-> "err", val |-> Invalid, err |-> e]
Panic(m) == [tag |-> "panic", val |-> Invalid, err |-> m]
ErrMalformedIndex    == Err("MalformedIndex")
ErrInvalidIndexUsage == Err("InvalidIndexUsage")
ErrKeyNotFound       == Err("KeyNotFound")

(***************************************************************************)
(* Iteration order of associative values.  Go leaves the order of          *)
(* MapKeys and MapRange unspecified: ord is a permutation of key           *)
(* positions, chosen by the runtime for the call.                          *)
(***************************************************************************)
MapOrder(v, ord) ==
    LET n == Len(v.keys)
    IN  SelectSeq(ord, LAMBDA i : i <= n)
        \o SelectSeq([i \in 1..n |-> i],
                     LAMBDA i : \A j \in 1..Len(ord) : ord[j] # i)
\* Value.MapKeys
MapKeys(v, ord) == [j \in 1..Len(v.keys) |-> v.keys[MapOrder(v, ord)[j]]]

(***************************************************************************)
(* encoding/json: json.Unmarshal of a text into map[string]interface{}.    *)
(* The grammar covers objects, arrays, strings without escapes, unsigned    *)
(* integers and null, without white space.                                 *)
(***************************************************************************)
TJSONMap   == MapOf(TString, TInterface)
TJSONArray == SliceOf(TInterface)
NoParse == [ok |-> FALSE, val |-> Invalid, pos |-> 0]
Parsed(v, p) == [ok |-> TRUE, val |-> v, pos |-> p]
At(s, p) == IF p >= 1 /\ p <= Len(s) THEN s[p] ELSE ""

\* The position of the closing quote of the string opening at p.
ClosingQuote(s, p) ==
    IF \E q \in (p+1)..Len(s) : s[q] = "\""
    THEN CHOOSE q \in (p+1)..Len(s) :
             s[q] = "\"" /\ \A r \in (p+1)..(q-1) : s[r] # "\""
    ELSE 0

RECURSIVE NumberEnd(_, _)
NumberEnd(s, p) == IF IsDigit(At(s, p)) THEN NumberEnd(s, p + 1) ELSE p

\* m[k] = v on a decoded object: a repeated key keeps the last value.
MapPut(m, k, v) ==
    IF \E i \in 1..Len(m.keys) : m.keys[i] = k
    THEN [m EXCEPT !.elems[CHOOSE i \in 1..Len(m.keys) : m.keys[i] = k] = v]
    ELSE [m EXCEPT !.keys = Append(@, k), !.elems = Append(@, v)]

\* The interface{} slot a decoded value is stored in: nil for null.
JSONSlot(v) == IF IsValid(v) THEN IfaceV(v) ELSE NilIface

RECURSIVE ParseValue(_, _), ParseMembers(_, _, _), ParseElements(_, _, _)
ParseValue(s, p) ==
    LET c == At(s, p)
    IN  CASE c = "\"" ->
               LET q == ClosingQuote(s, p)
               IN  IF q = 0 THEN NoParse
                   ELSE Parsed(Str(SubSeq(s, p + 1, q - 1)), q + 1)
          [] c = "{" ->
               IF At(s, p + 1) = "}"
               THEN Parsed(MapV(TJSONMap, <<>>, <<>>), p + 2)
               ELSE ParseMembers(s, p + 1, MapV(TJSONMap, <<>>, <<>>))
          [] c = "[" ->
               IF At(s, p + 1) = "]"
               THEN Parsed(SliceV(TJSONArray, <<>>), p + 2)
               ELSE ParseElements(s, p + 1, SliceV(TJSONArray, <<>>))
          [] IsDigit(c) ->
               LET e == NumberEnd(s, p)
               IN  Parsed(Scalar(TFloat64, SubSeq(s, p, e - 1)), e)
          [] c = "n" ->
               IF At(s, p + 1) = "u" /\ At(s, p + 2) = "l" /\ At(s, p + 3) = "l"
               THEN Parsed(Invalid, p + 4)
               ELSE NoParse
          [] OTHER -> NoParse

\* "key":value pairs up to the closing brace.
ParseMembers(s, p, m) ==
    LET q == ClosingQuote(s, p)
    IN  IF At(s, p) # "\"" \/ q = 0 \/ At(s, q + 1) # ":" THEN NoParse
        ELSE LET r == ParseValue(s, q + 2)
             IN  IF ~r.ok THEN NoParse
                 ELSE LET m2 == MapPut(m, SubSeq(s, p + 1, q - 1), JSONSlot(r.val))
                      IN  CASE At(s, r.pos) = "," -> ParseMembers(s, r.pos + 1, m2)
                            [] At(s, r.pos) = "}" -> Parsed(m2, r.pos + 1)
                            [] OTHER -> NoParse

\* Array elements up to the closing bracket.
ParseElements(s, p, a) ==
    LET r == ParseValue(s, p)
    IN  IF ~r.ok THEN NoParse
        ELSE LET a2 == [a EXCEPT !.elems = Append(@, JSONSlot(r.val))]
             IN  CASE At(s, r.pos) = "," -> ParseElements(s, r.pos + 1, a2)
                   [] At(s, r.pos) = "]" -> Parsed(a2, r.pos + 1)
                   [] OTHER -> NoParse

\* json.Unmarshal(text, &map[string]interface{}): succeeds on one whole
\* object.
JSONUnmarshal(s) ==
    LET r == ParseValue(s, 1)
    IN  IF r.ok /\ r.val.kind = "Map" /\ r.pos = Len(s) + 1
        THEN [ok |-> TRUE, val |-> r.val]
        ELSE [ok |-> FALSE, val |-> Invalid]

\* expandStringAsJSON: the decoded map, or Invalid for the nil map.
expandStringAsJSON(v) ==
    IF v.kind # "String" \/ ~IsValid(v) \/ Len(v.sc) = 0 THEN Invalid
    ELSE LET r == JSONUnmarshal(v.sc)
         IN  IF r.ok THEN r.val ELSE Invalid

\* Expanded with the option ignored: every JSON object text is expanded.
ExpandedAlways(value, opts) ==
    IF IsValid(expandStringAsJSON(value))
    THEN expandStringAsJSON(value)
    ELSE value

\* The option-guarded expansion of lookup: the value is replaced only when
\* the expansion is non-nil.
Expanded(value, opts) ==
    IF opts.ExpandStringAsJSON /\ IsValid(expandStringAsJSON(value))
    THEN expandStringAsJSON(value)
    ELSE value

(***************************************************************************)
(* The resolution engine.                                                  *)
(***************************************************************************)
IndexOpenChar  == "["
IndexCloseChar == "]"

hasIndex(s) == StrIndex(s, IndexOpenChar) # -1

\* parseIndex: (key, index, error).  s[start+1 : end] panics when the
\* closing bracket comes before the opening one.
parseIndex(s) ==
    LET start == StrIndex(s, IndexOpenChar)
        end   == StrIndex(s, IndexCloseChar)
    IN  IF start = -1 /\ end = -1
        THEN [tag |-> "ok", key |-> s, index |-> -1]
        ELSE IF (start # -1 /\ end = -1) \/ (start = -1 /\ end # -1)
        THEN [tag |-> "err", key |-> <<>>, index |-> -1]
        ELSE IF start + 1 > end
        THEN [tag |-> "panic", key |-> <<>>, index |-> -1]
        ELSE LET a == Atoi(Slice(s, start + 1, end))
             IN  IF ~a.ok THEN [tag |-> "err", key |-> <<>>, index |-> -1]
                 ELSE [tag |-> "ok", key |-> Slice(s, 0, start), index |-> a.n]

RECURSIVE getRealValue(_)
getRealValue(v) ==
    IF IsValid(v) /\ v.kind \in {"Ptr", "Interface"}
    THEN getRealValue(Elem(v))
    ELSE v

isAggregable(v) == v.kind \in {"Map", "Slice"}
\* isMergeable that never asks for flattening.
isMergeableNever(v) == FALSE
isMergeable(v)  == v.kind \in {"Map", "Slice"}

\* StructMatch with the scan under case folding tried before the exact
\* match.
StructMatchFoldFirst(v, key, opts) ==
    LET fs == StructFields(v.ty.name)
    IN  IF opts.CaseInsentitive
           /\ \E i \in 1..NumField(v) : EqualFold(fs[i].name, key)
        THEN Field(v, CHOOSE i \in 1..NumField(v) :
                          /\ EqualFold(fs[i].name, key)
                          /\ \A j \in 1..(i-1) : ~EqualFold(fs[j].name, key))
        ELSE FieldByName(v, key)

\* StructMatch with the CaseInsentitive option ignored: the fallback scan
\* always runs.
StructMatchAlwaysFold(v, key, opts) ==
    LET value == FieldByName(v, key)
        fs    == StructFields(v.ty.name)
    IN  IF value.kind = "Invalid"
           /\ \E i \in 1..NumField(v) : EqualFold(fs[i].name, key)
        THEN Field(v, CHOOSE i \in 1..NumField(v) :
                          /\ EqualFold(fs[i].name, key)
                          /\ \A j \in 1..(i-1) : ~EqualFold(fs[j].name, key))
        ELSE value

\* The field of a record matched by key: exact, else (when the option is set)
\* the first in declaration order that matches under case folding.
StructMatch(v, key, opts) ==
    LET value == FieldByName(v, key)
        fs    == StructFields(v.ty.name)
    IN  IF opts.CaseInsentitive /\ value.kind = "Invalid"
           /\ \E i \in 1..NumField(v) : EqualFold(fs[i].name, key)
        THEN Field(v, CHOOSE i \in 1..NumField(v) :
                          /\ EqualFold(fs[i].name, key)
                          /\ \A j \in 1..(i-1) : ~EqualFold(fs[j].name, key))
        ELSE value

\* The entry of a map matched by key: exact, else (when the option is set)
\* the first in iteration order that matches under case folding.
\* Value.SetString panics unless the key type is of string kind.
MapMatch(v, key, opts, ord) ==
    LET value == MapIndex(v, key)
        ks    == MapKeys(v, ord)
    IN  IF opts.CaseInsentitive /\ value.kind = "Invalid"
           /\ \E i \in 1..Len(ks) : EqualFold(key, ks[i])
        THEN MapIndex(v, ks[CHOOSE i \in 1..Len(ks) :
                                /\ EqualFold(key, ks[i])
                                /\ \A j \in 1..(i-1) : ~EqualFold(key, ks[j])])
        ELSE value

\* The tail of getValueByName, after the switch on the kind.
ApplyIndex(value, index) ==
    IF ~IsValid(value) THEN ErrKeyNotFound
    ELSE LET rv == getRealValue(value)
         IN  IF index = -1 THEN Ok(rv)
             ELSE IF ~IsValid(rv)
             THEN Panic("reflect: call of reflect.Value.Type on zero Value")
             ELSE IF rv.ty.k # "Slice" THEN ErrInvalidIndexUsage
             ELSE IF index < 0 \/ index >= VLen(rv)
             THEN Panic("reflect: slice index out of range")
             ELSE Ok(getRealValue(Index(rv, index)))

RECURSIVE getValueByName(_, _, _, _)
getValueByName(v, key, opts, ord) ==
    LET p == parseIndex(key)
    IN  CASE p.tag = "panic" -> Panic("slice bounds out of range")
          [] p.tag = "err" -> ErrMalformedIndex
          [] OTHER ->
             CASE v.kind \in {"Ptr", "Interface"} ->
                    getValueByName(Elem(v), p.key, opts, ord)
               [] v.kind = "Struct" ->
                    ApplyIndex(StructMatch(v, p.key, opts), p.index)
               [] v.kind = "Map" ->
                    IF v.ty.key[1].k # "String"
                    THEN Panic("reflect: call of reflect.Value.SetString on non-string Value")
                    ELSE ApplyIndex(MapMatch(v, p.key, opts, ord), p.index)
               [] OTHER -> ApplyIndex(Invalid, p.index)

RECURSIVE lookupType(_, _)
lookupType(ty, path) ==
    IF Len(path) = 0 THEN [ok |-> TRUE, ty |-> ty]
    ELSE CASE ty.k \in {"Slice", "Array", "Map"} ->
                IF hasIndex(path[1])
                THEN lookupType(TypeElem(ty), Tail(path))
                ELSE lookupType(TypeElem(ty), path)
           [] ty.k = "Ptr" -> lookupType(TypeElem(ty), path)
           [] ty.k = "Interface" -> [ok |-> TRUE, ty |-> ty]
           [] ty.k = "Struct" ->
                LET f == TypeFieldByName(ty, path[1])
                IN  IF f.ok THEN lookupType(f.ty, Tail(path))
                    ELSE [ok |-> FALSE, ty |-> NoType]
           [] OTHER -> [ok |-> FALSE, ty |-> NoType]

removeZeroValues(values) == SelectSeq(values, IsValid)

\* reflect.AppendSlice(value, x): x must be a slice of the same element
\* type; reflect.Append(value, x): x must be assignable to the element type.
\* Both refuse a read-only x.
RECURSIVE mergeLoop(_, _, _, _, _)
mergeLoop(values, i, mergeable, t, acc) ==
    IF i > Len(values) THEN Ok(SliceV(SliceOf(t), acc))
    ELSE LET x == values[i]
         IN  IF ~IsValid(x) THEN mergeLoop(values, i + 1, mergeable, t, acc)
             ELSE IF mergeable
             THEN IF x.kind # "Slice"
                  THEN Panic("reflect: call of reflect.AppendSlice on non-slice Value")
                  ELSE IF TypeElem(x.ty) # t
                  THEN Panic("reflect.AppendSlice: type mismatch")
                  ELSE IF x.ro
                  THEN Panic("reflect: value obtained using unexported field")
                  ELSE mergeLoop(values, i + 1, mergeable, t, acc \o x.elems)
             ELSE IF x.ro
                  THEN Panic("reflect: value obtained using unexported field")
                  ELSE IF x.ty = t
                  THEN mergeLoop(values, i + 1, mergeable, t, Append(acc, x))
                  ELSE IF t.k = "Interface"
                  THEN mergeLoop(values, i + 1, mergeable, t, Append(acc, IfaceV(x)))
                  ELSE Panic("reflect.Append: value is not assignable to the element type")

\* mergeValue: the merged slice, the zero Value when nothing valid remains.
mergeValue(values) ==
    LET vs == removeZeroValues(values)
    IN  IF Len(vs) = 0 THEN Ok(Invalid)
        ELSE LET sample    == vs[1]
                 mergeable == isMergeable(sample)
                 t == IF mergeable THEN TypeElem(sample.ty) ELSE sample.ty
             IN  mergeLoop(vs, 1, mergeable, t, <<>>)

\* indexFunction: the i-th element (0-based) of a slice, or the value of the
\* i-th key of MapKeys.
indexFunction(v, ord, i) ==
    IF v.kind = "Slice" THEN Index(v, i)
    ELSE MapIndex(v, MapKeys(v, ord)[i + 1])

RECURSIVE lookup(_, _, _, _), lookupLoop(_, _, _, _, _), aggreateLoop(_, _, _, _, _, _)

\* aggreateLoop that skips a failing element instead of returning its error.
RECURSIVE aggreateLoopBestEffort(_, _, _, _, _, _)
aggreateLoopBestEffort(v, path, opts, ord, i, values) ==
    IF i >= VLen(v) THEN mergeValue(values)
    ELSE LET e == indexFunction(v, ord, i)
         IN  IF ~CanInterface(e)
             THEN Panic("reflect.Value.Interface: cannot return value obtained from unexported field")
             ELSE LET r == lookup(ValueOfInterface(e), path, opts, ord)
                  IN  IF r.tag # "ok"
                      THEN aggreateLoopBestEffort(v, path, opts, ord, i + 1, values)
                      ELSE aggreateLoopBestEffort(v, path, opts, ord, i + 1,
                                                  Append(values, r.val))

\* The loop of aggreateAggregableValue over the elements of a non-empty v;
\* aggreateNext is the rest of one iteration, r being the result of the
\* lookup on the element.
aggreateNext(v, path, opts, ord, i, values, r) ==
    IF r.tag # "ok" THEN r
    ELSE aggreateLoop(v, path, opts, ord, i + 1, Append(values, r.val))

aggreateLoop(v, path, opts, ord, i, values) ==
    IF i >= VLen(v) THEN mergeValue(values)
    ELSE LET e == indexFunction(v, ord, i)
         IN  IF ~CanInterface(e)
             THEN Panic("reflect.Value.Interface: cannot return value obtained from unexported field")
             ELSE aggreateNext(v, path, opts, ord, i, values,
                               lookup(ValueOfInterface(e), path, opts, ord))

\* aggreateAggregableValue without the branch for an empty collection.
aggreateNoEmptyBranch(v, path, opts, ord) ==
    aggreateLoop(v, path, opts, ord, 0, <<>>)

aggreateAggregableValue(v, path, opts, ord) ==
    IF VLen(v) = 0
    THEN LET t == lookupType(v.ty, path)
         IN  IF ~t.ok THEN ErrKeyNotFound
             ELSE Ok(SliceV(SliceOf(t.ty), <<>>))
    ELSE aggreateLoop(v, path, opts, ord, 0, <<>>)

\* One iteration of the loop of lookup on segment path[i] (1-based):
\* next is "continue" or "break"; agg tells that the aggregator was called,
\* on parent with the remaining path rest.  loopStep is the iteration after
\* the call of getValueByName, whose result is r; loopExpanded the iteration
\* after the expansion of the value.
loopStep(value, r, path, i, opts, ord) ==
    LET parent == value
        rest   == SubSeq(path, i, Len(path))
        out(next, res, agg) ==
            [next |-> next, res |-> res, agg |-> agg,
             parent |-> parent, rest |-> rest]
    IN  IF opts.ExpandStringAsJSON /\ ~IsValid(value)
        THEN out("break", Panic("reflect: call of reflect.Value.Type on zero Value"), FALSE)
        ELSE IF r.tag = "panic" THEN out("break", r, FALSE)
        ELSE IF r.tag = "ok" THEN out("continue", r, FALSE)
        ELSE IF ~isAggregable(parent) THEN out("break", r, FALSE)
        ELSE out("break", aggreateAggregableValue(parent, rest, opts, ord), TRUE)

loopExpanded(value, path, i, opts, ord) ==
    loopStep(value, getValueByName(value, path[i], opts, ord), path, i, opts, ord)

loopBody(value0, path, i, opts, ord) ==
    loopExpanded(Expanded(value0, opts), path, i, opts, ord)

\* The loop of lookup from segment i on; lookupNext follows the outcome b of
\* one iteration.
lookupNext(b, path, i, opts, ord) ==
    IF b.next = "continue"
    THEN lookupLoop(b.res.val, path, i + 1, opts, ord)
    ELSE b.res

lookupLoop(value, path, i, opts, ord) ==
    IF i > Len(path) THEN Ok(value)
    ELSE lookupNext(loopBody(value, path, i, opts, ord), path, i, opts, ord)

\* lookup(i, path, opts): i is the content of the interface{} argument, the
\* zero Value for nil.
lookup(i, path, opts, ord) == lookupLoop(i, path, 1, opts, ord)

\* The conversion of Lookup: v.Interface() on success, the error otherwise.
Convert(r) ==
    IF r.tag # "ok" THEN r
    ELSE IF ~IsValid(r.val)
    THEN Panic("reflect: call of reflect.Value.Interface on zero Value")
    ELSE IF r.val.ro
    THEN Panic("reflect.Value.Interface: cannot return value obtained from unexported field")
    ELSE r

Lookup(i, path, opts, ord) == Convert(lookup(i, Split(path), opts, ord))

(***************************************************************************)
(* Input values: the fixtures of the tests of src/lookup.go, with short    *)
(* names, and slices of records generated up to MaxLen.                    *)
(***************************************************************************)
sFoo == <<"f","o","o">>
sBar == <<"b","a","r">>
sQux == <<"q","u","x">>
sBaz == <<"b","a","z">>
i42  == IntV(<<"4","2">>)

TMapStringInt == MapOf(TString, TInt)
TStructSlice  == SliceOf(PtrTo(TMyStruct))

\* mapFixture = map[string]int{"foo": 42}, with the key written f.
mapFixture      == MapV(TMapStringInt, << <<"f">> >>, <<i42>>)
mapFixtureNamed == MapV(MapOf(TMyKey, TInt), << <<"f">> >>, <<i42>>)
mapIntKeyed     == MapV(MapOf(TInt, TInt), << <<"1">> >>, <<i42>>)

\* structFixture.JSONString, shortened: {"S":"a","M":{"S":"b","L":[1,2]}}
jsonText ==
    <<"{", "\"","S","\"", ":", "\"","a","\"", ",",
           "\"","M","\"", ":", "{", "\"","S","\"", ":", "\"","b","\"", ",",
                                    "\"","L","\"", ":", "[", "1", ",", "2", "]",
                               "}",
      "}">>

\* {"N":null}: an object whose only member is null.
jsonNull == <<"{", "\"","N","\"", ":", "n","u","l","l", "}">>

MyStruct(str, m, nested, structSlice, iface, json) ==
    StructV(TMyStruct, <<Str(str), m, nested, structSlice, iface, Str(json)>>)
\* A record with only String set: {String: str}.
Leaf(str) ==
    MyStruct(str, MapV(TMapStringInt, <<>>, <<>>), NilPtr(PtrTo(TMyStruct)),
             SliceV(TStructSlice, <<>>), NilIface, <<>>)

\* The two elements of structFixture.StructSlice; the second holds one
\* sub-element here, so that the inner lengths differ.
elemFoo ==
    MyStruct(sFoo, mapFixture, NilPtr(PtrTo(TMyStruct)),
             SliceV(TStructSlice, <<PtrV(Leaf(sBar)), PtrV(Leaf(sFoo))>>),
             NilIface, <<>>)
elemQux ==
    MyStruct(sQux, mapFixture, PtrV(Leaf(sBaz)),
             SliceV(TStructSlice, <<PtrV(Leaf(sQux))>>),
             IfaceV(i42), <<>>)
structFixture ==
    MyStruct(sFoo, mapFixture, NilPtr(PtrTo(TMyStruct)),
             SliceV(TStructSlice, <<PtrV(elemFoo), PtrV(elemQux)>>),
             IfaceV(Str(sFoo)), jsonText)

\* caseFixtureStruct = {Foo: 0, TestField: 1, Testfield: 2, testField: 3}
caseFixtureStruct ==
    StructV(TCase, <<IntV(<<"0">>), IntV(<<"1">>), IntV(<<"2">>), IntV(<<"3">>)>>)
\* caseFixtureMap, with the keys TestKey, Testkey, testKey written TF, Tf, tF.
caseFixtureMap ==
    MapV(TMapStringInt, << <<"T","F">>, <<"T","f">>, <<"t","F">> >>,
         <<IntV(<<"1">>), IntV(<<"2">>), IntV(<<"3">>)>>)

\* mapComplexFixture = {"map": {"bar": 1}, "list": [{"baz": 1}, {"baz": 2}]}
\* with the keys written M, S, L, I.
mapComplexFixture ==
    MapV(TJSONMap, << <<"M">>, <<"L">> >>,
         << IfaceV(MapV(TJSONMap, << <<"S">> >>, <<IfaceV(IntV(<<"1">>))>>)),
            IfaceV(SliceV(SliceOf(TJSONMap),
                          << MapV(TJSONMap, << <<"I">> >>, <<IfaceV(IntV(<<"1">>))>>),
                             MapV(TJSONMap, << <<"I">> >>, <<IfaceV(IntV(<<"2">>))>>) >>)) >>)

\* map[string]*MyStruct, as in series of ExampleLookupString.
mapOfStructs ==
    MapV(MapOf(TString, PtrTo(TMyStruct)), << <<"f">>, <<"Q">> >>,
         <<PtrV(elemFoo), PtrV(elemQux)>>)
emptyMapOfStructs == MapV(MapOf(TString, PtrTo(TMyStruct)), <<>>, <<>>)
\* [][]MyStruct{{}} of TestAggregableLookup_EmptySlice
emptyNested ==
    SliceV(SliceOf(SliceOf(TMyStruct)), <<SliceV(SliceOf(TMyStruct), <<>>)>>)
\* []interface{} holding values of different shapes.
mixedSlice ==
    SliceV(SliceOf(TInterface),
           <<IfaceV(elemQux), IfaceV(MapV(TMapStringInt, << <<"S">> >>, <<i42>>)),
             NilIface>>)

\* The elements of the generated slices of type []*MyStruct.
ElemPool == {PtrV(elemFoo), PtrV(elemQux), NilPtr(PtrTo(TMyStruct))}

RECURSIVE SeqsUpTo(_, _)
SeqsUpTo(S, n) ==
    IF n = 0 THEN {<<>>}
    ELSE LET shorter == SeqsUpTo(S, n - 1)
         IN  shorter \cup {Append(q, x) : q \in {r \in shorter : Len(r) = n - 1}, x \in S}

StructSlices == {SliceV(TStructSlice, q) : q \in SeqsUpTo(ElemPool, MaxLen)}

Fixtures ==
    {structFixture, caseFixtureStruct, mapFixture, mapFixtureNamed, mapIntKeyed,
     caseFixtureMap, mapComplexFixture, mapOfStructs, emptyMapOfStructs,
     emptyNested, mixedSlice, Str(sFoo), Str(jsonText), Str(jsonNull), Invalid}

\* Lookup's argument: a fixture, a generated slice, or a pointer to one
\* (nil for the zero Value).
Inputs ==
    Fixtures \cup StructSlices
    \cup {PtrV(v) : v \in {structFixture, mapOfStructs, caseFixtureStruct,
                           SliceV(TStructSlice, <<PtrV(elemFoo)>>)}}

(***************************************************************************)
(* Paths: a segment is a name, possibly followed by an index or by a       *)
(* malformed bracket.  A path is up to MaxSegs segments joined by the      *)
(* split token: any segment last, after segments that navigate.            *)
(***************************************************************************)
Names ==
    { <<"S">>, <<"M">>, <<"N">>, <<"L">>, <<"I">>, <<"J">>, <<"f">>, <<"Q">>,
      <<"s">>, <<"T","f">>, <<"t","f">>, <<"t","F">> }
Indexed ==
    { <<"L","[","0","]">>, <<"L","[","1","]">>, <<"L","[","2","]">>,
      <<"L","[","-","1","]">>, <<"L","[","x","]">>,
      <<"L","[">>, <<"L","]">>, <<"L","[","]">>, <<"L","]","0","[">>,
      <<"S","[","0","]">>, <<"N","[","0","]">>, <<"M","[","0","]">> }
Segments == Names \cup Indexed
NavSegments == { <<"L">>, <<"N">>, <<"J">>, <<"L","[","0","]">> }

RECURSIVE Join(_)
Join(ss) ==
    IF Len(ss) = 1 THEN ss[1]
    ELSE ss[1] \o <<".">> \o Join(Tail(ss))

Paths ==
    {Join(Append(q, x)) : q \in SeqsUpTo(NavSegments, MaxSegs - 1), x \in Segments}

Options == [ExpandStringAsJSON : BOOLEAN, CaseInsentitive : BOOLEAN]

RECURSIVE PermsOf(_)
PermsOf(S) ==
    IF S = {} THEN {<<>>}
    ELSE UNION {{<<x>> \o q : q \in PermsOf(S \ {x})} : x \in S}

Max(a, b) == IF a >= b THEN a ELSE b

\* The largest number of keys of a map inside v, the maps decoded from its
\* JSON texts included when json is set.
RECURSIVE MaxKeys(_, _), MaxKeysOf(_, _, _)
MaxKeysOf(vs, j, json) ==
    IF j > Len(vs) THEN 0
    ELSE Max(MaxKeys(vs[j], json), MaxKeysOf(vs, j + 1, json))
MaxKeys(v, json) ==
    IF json /\ IsValid(expandStringAsJSON(v))
    THEN MaxKeys(expandStringAsJSON(v), json)
    ELSE Max(Len(v.keys), MaxKeysOf(v.elems, 1, json))

\* The iteration orders the runtime may choose for the maps of v.
Orders(v, json) == PermsOf(1..MaxKeys(v, json))

(***************************************************************************)
(* One call of Lookup, one loop iteration per step.                        *)
(***************************************************************************)
VARIABLES in, path, opts, ord, pc, segs, i, value, parent, rest, agg, res, out
vars == <<in, path, opts, ord, pc, segs, i, value, parent, rest, agg, res, out>>

Init ==
    /\ in \in Inputs
    /\ opts \in Options
    /\ ord \in Orders(in, opts.ExpandStringAsJSON)
    /\ path \in Paths
    /\ pc = "call"
    /\ segs = <<>>
    /\ i = 0
    /\ value = Invalid
    /\ parent = Invalid
    /\ rest = <<>>
    /\ agg = FALSE
    /\ res = Ok(Invalid)
    /\ out = Ok(Invalid)

\* Lookup, up to the loop of lookup: the path is split and the argument is
\* taken as a reflect.Value.
Begin ==
    /\ pc = "call"
    /\ segs' = Split(path)
    /\ value' = in
    /\ res' = Ok(in)
    /\ i' = 1
    /\ pc' = "loop"
    /\ UNCHANGED <<in, path, opts, ord, parent, rest, agg, out>>

\* One iteration of the loop of lookup.
Iterate ==
    /\ pc = "loop"
    /\ i <= Len(segs)
    /\ \E b \in {loopBody(value, segs, i, opts, ord)} :
           /\ parent' = b.parent
           /\ rest' = b.rest
           /\ agg' = b.agg
           /\ res' = b.res
           /\ value' = b.res.val
           /\ i' = i + 1
           /\ pc' = IF b.next = "continue" THEN "loop" ELSE "return"
    /\ UNCHANGED <<in, path, opts, ord, segs, out>>

\* The loop is over or was left: lookup returns and Lookup converts.
Return ==
    /\ \/ pc = "return"
       \/ pc = "loop" /\ i > Len(segs)
    /\ out' = Convert(res)
    /\ pc' = "done"
    /\ UNCHANGED <<in, path, opts, ord, segs, i, value, parent, rest, agg, res>>

Next == Begin \/ Iterate \/ Return

Spec == Init /\ [][Next]_vars

TypeOK ==
    /\ pc \in {"call", "loop", "return", "done"}
    /\ out.tag \in {"ok", "err", "panic"}

(***************************************************************************)
(* Vocabulary of the properties.  After an iteration of the loop, parent   *)
(* is the value the segment rest[1] was applied to.                        *)
(***************************************************************************)
WellFormed(seg) == parseIndex(seg).tag = "ok"
KeyOf(seg)   == parseIndex(seg).key
IndexOf(seg) == parseIndex(seg).index
FieldNames(v) ==
    {StructFields(v.ty.name)[j].name : j \in 1..Len(StructFields(v.ty.name))}
MapKeySet(v) == {v.keys[j] : j \in 1..Len(v.keys)}

\* seg is well formed and names no field of the record v (v taken through
\* pointers and interfaces).
AbsentFromRecord(v, seg) ==
    /\ WellFormed(seg)
    /\ getRealValue(v).kind = "Struct"
    /\ KeyOf(seg) \notin FieldNames(getRealValue(v))
\* seg is well formed and names no key of the string-keyed map v.
AbsentFromMap(v, seg) ==
    /\ WellFormed(seg)
    /\ getRealValue(v).kind = "Map"
    /\ getRealValue(v).ty.key[1].k = "String"
    /\ KeyOf(seg) \notin MapKeySet(getRealValue(v))

\* The content of the first element an aggregation over v visits.
FirstVisited(v) == ValueOfInterface(indexFunction(v, ord, 0))

(***************************************************************************)
(* C1                                                                      *)
(***************************************************************************)
\* C1 (as claimed): whenever a segment names a key absent from the record or
\* map it is applied to and case-insensitive matching is unset, Lookup fails
\* (with KeyNotFound): it never returns a value.
C1_AbsentKeyNeverReturnsValue ==
    (/\ pc = "done"
     /\ ~opts.CaseInsentitive
     /\ AbsentFromRecord(parent, rest[1]) \/ AbsentFromMap(parent, rest[1]))
    => out.tag # "ok"

\* C1 (amended): whenever a well-formed segment names a field absent from the
\* record it is applied to (directly, through pointers, or as the first
\* element visited by an aggregation) and case-insensitive matching is unset,
\* the walk stops with KeyNotFound and Lookup returns KeyNotFound, no value.
C1_AbsentFieldIsKeyNotFound ==
    /\ (/\ Len(rest) >= 1
        /\ ~opts.CaseInsentitive
        /\ AbsentFromRecord(parent, rest[1]))
       => /\ res = ErrKeyNotFound
          /\ ~agg
          /\ pc \in {"return", "done"}
          /\ pc = "done" => out = ErrKeyNotFound
    /\ (/\ agg
        /\ VLen(parent) > 0
        /\ ~opts.CaseInsentitive
        /\ CanInterface(indexFunction(parent, ord, 0))
        /\ AbsentFromRecord(FirstVisited(parent), rest[1]))
       => /\ res = ErrKeyNotFound
          /\ pc = "done" => out = ErrKeyNotFound

\* C1 witness: a field absent from a record, reached directly and inside an
\* aggregation, has made Lookup return KeyNotFound.
C1_Witness ==
    /\ pc = "done"
    /\ ~opts.CaseInsentitive
    /\ agg
    /\ VLen(parent) > 1
    /\ AbsentFromRecord(FirstVisited(parent), rest[1])
    /\ out = ErrKeyNotFound

(***************************************************************************)
(* C2                                                                      *)
(***************************************************************************)
\* A dangling bracket: only "[", only "]", or "[]" with nothing inside.
Dangling(seg) ==
    LET start == StrIndex(seg, IndexOpenChar)
        end   == StrIndex(seg, IndexCloseChar)
    IN  \/ start # -1 /\ end = -1
        \/ start = -1 /\ end # -1
        \/ start # -1 /\ end = start + 1

\* C2 (as claimed): for every input value and every path with a segment that
\* has a dangling bracket, Lookup fails with MalformedIndex.
C2_DanglingIsMalformedIndex ==
    (/\ pc = "done"
     /\ \E j \in 1..Len(segs) : Dangling(segs[j]))
    => out = ErrMalformedIndex

(***************************************************************************)
(* C3                                                                      *)
(***************************************************************************)
\* C3 (as claimed): Lookup on a pointer to the input returns what Lookup on
\* the input returns, for every path and options.
C3_PointerTransparent ==
    (pc = "done" /\ IsValid(in))
    => Lookup(PtrV(in), path, opts, ord) = out

(***************************************************************************)
(* C4                                                                      *)
(***************************************************************************)
pathLS  == <<"L", ".", "S">>
pathLLS == <<"L", ".", "L", ".", "S">>

\* The String fields of the records of the StructSlice of the record p
\* points to, in position order.
InnerStrings(p) ==
    LET inner == FieldByName(Elem(p), <<"L">>)
    IN  [k \in 1..VLen(inner) |-> FieldByName(Elem(inner.elems[k]), <<"S">>)]
\* Every inner string of the outer sequence, by outer then inner position.
RECURSIVE AllInnerStrings(_, _)
AllInnerStrings(outer, j) ==
    IF j > Len(outer) THEN <<>>
    ELSE InnerStrings(outer[j]) \o AllInnerStrings(outer, j + 1)

NoNilElement(v) == \A j \in 1..VLen(v) : Len(v.elems[j].elems) = 1

\* C4: a path that broadcasts over two nested sequence levels returns one
\* flat sequence of the inner scalars, ordered by outer then inner position;
\* its length is the sum of the inner lengths.
C4_NestedBroadcastIsFlat ==
    /\ (/\ pc = "done"
        /\ in \in StructSlices
        /\ NoNilElement(in)
        /\ path = pathLS)
       => out = Ok(SliceV(SliceOf(TString), AllInnerStrings(in.elems, 1)))
    /\ (/\ pc = "done"
        /\ in = structFixture
        /\ path = pathLLS)
       => out = Ok(SliceV(SliceOf(TString),
                          AllInnerStrings(FieldByName(in, <<"L">>).elems, 1)))

\* C4 witness: two records holding two and one sub-records gave three strings.
C4_Witness ==
    /\ pc = "done"
    /\ in = SliceV(TStructSlice, <<PtrV(elemFoo), PtrV(elemQux)>>)
    /\ path = pathLS
    /\ out = Ok(SliceV(SliceOf(TString), <<Str(sBar), Str(sFoo), Str(sQux)>>))

(***************************************************************************)
(* C5                                                                      *)
(***************************************************************************)
\* What the remaining path gives on element j (0-based) of the container
\* the aggregator was called on.
ElementResult(j) ==
    IF ~CanInterface(indexFunction(parent, ord, j))
    THEN Panic("reflect.Value.Interface: cannot return value obtained from unexported field")
    ELSE lookup(ValueOfInterface(indexFunction(parent, ord, j)), rest, opts, ord)
ElementFails(j) == ElementResult(j).tag # "ok"
FirstFailing ==
    CHOOSE j \in 0..(VLen(parent) - 1) :
        ElementFails(j) /\ \A k \in 0..(j - 1) : ~ElementFails(k)

\* C5: when a segment is broadcast over a non-empty collection and the
\* remaining path fails on some element, Lookup returns the failure of the
\* first failing element in iteration order, and no value.
C5_AggregationFailFast ==
    (/\ pc = "done"
     /\ agg
     /\ VLen(parent) > 0
     /\ \E j \in 0..(VLen(parent) - 1) : ElementFails(j))
    => /\ out = ElementResult(FirstFailing)
       /\ out.tag # "ok"

\* C5 witness: the path resolved on the first element and failed with an
\* error on a later one, and Lookup returned that error.
C5_Witness ==
    /\ pc = "done"
    /\ agg
    /\ VLen(parent) > 1
    /\ ~ElementFails(0)
    /\ ElementResult(1).tag = "err"
    /\ out = ElementResult(1)

(***************************************************************************)
(* C6                                                                      *)
(***************************************************************************)
\* The record type at the bottom of a type of sequences, maps and pointers.
RECURSIVE RecordTypeOf(_)
RecordTypeOf(ty) ==
    IF ty.k \in {"Slice", "Map", "Ptr"} THEN RecordTypeOf(ty.elem[1]) ELSE ty
DeclaredNames(ty) ==
    {StructFields(ty.name)[j].name : j \in 1..Len(StructFields(ty.name))}
DeclaredType(ty, n) ==
    StructFields(ty.name)[CHOOSE j \in 1..Len(StructFields(ty.name)) :
                              StructFields(ty.name)[j].name = n].ty
IsScalarType(ty) == ty.k \in {"String", "Int", "Float64"}
Plain(seg) ==
    StrIndex(seg, IndexOpenChar) = -1 /\ StrIndex(seg, IndexCloseChar) = -1
EmptyOf(ty) == Ok(SliceV(SliceOf(ty), <<>>))

\* The non-empty inputs of the type of the empty collection v.
NonEmptyLike(v) == {w \in Inputs : w.ty = v.ty /\ VLen(w) > 0}

\* C6 (as claimed): a segment broadcast over an empty collection gives an
\* empty sequence typed as the result on a non-empty collection of the same
\* type.
C6_EmptyTypedAsNonEmpty ==
    (/\ pc = "done"
     /\ agg
     /\ VLen(parent) = 0)
    => \A w \in NonEmptyLike(parent) :
          LET r == Lookup(w, Join(rest), opts, ord)
          IN  r.tag = "ok" => out = Ok(SliceV(r.val.ty, <<>>))

\* C6 (amended): a segment broadcast over an empty collection never crashes:
\* Lookup returns KeyNotFound or an empty sequence.  When the remaining path
\* is one plain segment over a collection of records, the sequence has the
\* declared type of the field of exactly that name as element type, and
\* KeyNotFound is returned when no field has exactly that name; for a scalar
\* field that is the type a non-empty collection of the same type gives.
C6_EmptyTypedByDeclaration ==
    (/\ pc = "done"
     /\ agg
     /\ VLen(parent) = 0)
    => /\ out = ErrKeyNotFound
          \/ /\ out.tag = "ok"
             /\ out.val.kind = "Slice"
             /\ VLen(out.val) = 0
       /\ (/\ Len(rest) = 1
           /\ Plain(rest[1])
           /\ RecordTypeOf(parent.ty).k = "Struct")
          => LET T == RecordTypeOf(parent.ty)
             IN  IF rest[1] \in DeclaredNames(T)
                 THEN /\ out = EmptyOf(DeclaredType(T, rest[1]))
                      /\ IsScalarType(DeclaredType(T, rest[1]))
                         => \A w \in NonEmptyLike(parent) :
                               LET r == Lookup(w, Join(rest), opts, ord)
                               IN  r.tag = "ok" => out = Ok(SliceV(r.val.ty, <<>>))
                 ELSE out = ErrKeyNotFound

\* C6 witness: an empty sequence of strings came out of an empty slice of
\* records.
C6_Witness ==
    /\ pc = "done"
    /\ agg
    /\ VLen(parent) = 0
    /\ in = SliceV(TStructSlice, <<>>)
    /\ rest = << <<"S">> >>
    /\ out = EmptyOf(TString)

(***************************************************************************)
(* C7, C8                                                                  *)
(***************************************************************************)
\* The value matched by the name of seg on v, before the index is applied.
Matched(v, seg) ==
    LET t == getRealValue(v)
    IN  CASE t.kind = "Struct" -> getRealValue(StructMatch(t, KeyOf(seg), opts))
          [] t.kind = "Map" /\ t.ty.key[1].k = "String" ->
               getRealValue(MapMatch(t, KeyOf(seg), opts, ord))
          [] OTHER -> Invalid
\* Whether the name of seg matches something of v.
Matches(v, seg) ==
    LET t == getRealValue(v)
    IN  CASE t.kind = "Struct" -> IsValid(StructMatch(t, KeyOf(seg), opts))
          [] t.kind = "Map" /\ t.ty.key[1].k = "String" ->
               IsValid(MapMatch(t, KeyOf(seg), opts, ord))
          [] OTHER -> FALSE

\* C7 (as claimed): if the segment carries an index and the value matched by
\* its name is not a sequence, Lookup fails with InvalidIndexUsage.
C7_IndexOnNonSequence ==
    (/\ pc = "done"
     /\ WellFormed(rest[1])
     /\ IndexOf(rest[1]) >= 0
     /\ Matches(parent, rest[1])
     /\ Matched(parent, rest[1]).kind # "Slice")
    => out = ErrInvalidIndexUsage

\* C8 (as claimed): if the segment carries an index greater than or equal to
\* the length of the matched sequence, Lookup returns the error
\* IndexOutOfRange: no crash, no value.
C8_IndexOutOfRange ==
    (/\ pc = "done"
     /\ WellFormed(rest[1])
     /\ IndexOf(rest[1]) >= 0
     /\ Matches(parent, rest[1])
     /\ Matched(parent, rest[1]).kind = "Slice"
     /\ IndexOf(rest[1]) >= VLen(Matched(parent, rest[1])))
    => out = Err("IndexOutOfRange")

(***************************************************************************)
(* C9                                                                      *)
(***************************************************************************)
\* C9 (as claimed): when the traversal ends with no error and an absent
\* value, Lookup returns KeyNotFound.
C9_AbsentResultIsKeyNotFound ==
    (pc = "done" /\ res = Ok(Invalid)) => out = ErrKeyNotFound

(***************************************************************************)
(* C10                                                                     *)
(***************************************************************************)
Lower(n) == [j \in 1..Len(n) |-> FoldChar(n[j])]
\* The position of the field of record t a segment named n selects under
\* case-insensitive matching, 0 when none.
SelectedField(t, n) ==
    LET fs == StructFields(t.ty.name)
        exact  == {j \in 1..Len(fs) : fs[j].name = n}
        folded == {j \in 1..Len(fs) : Lower(fs[j].name) = Lower(n)}
    IN  IF exact # {} THEN CHOOSE j \in exact : TRUE
        ELSE IF folded # {} THEN CHOOSE j \in folded : \A k \in folded : j <= k
        ELSE 0

\* C10: with case-insensitive matching set, a segment applied to a record
\* resolves to the field of exactly that name when there is one, otherwise to
\* the first field in declaration order whose name is equal under case
\* folding, and fails with KeyNotFound only when no field matches.
C10_CaseInsensitiveFirstMatch ==
    (/\ Len(rest) >= 1
     /\ opts.CaseInsentitive
     /\ WellFormed(rest[1])
     /\ getRealValue(parent).kind = "Struct")
    => LET t == getRealValue(parent)
           j == SelectedField(t, KeyOf(rest[1]))
       IN  /\ res = ErrKeyNotFound <=> j = 0
           /\ (IndexOf(rest[1]) = -1 /\ j # 0)
              => res = Ok(getRealValue(Field(t, j)))

\* C10 witness: "tf" matched no field exactly and resolved to TF, the first
\* of the fields TF, Tf, tF.
C10_Witness ==
    /\ pc = "done"
    /\ opts.CaseInsentitive
    /\ in = caseFixtureStruct
    /\ path = <<"t", "f">>
    /\ res = Ok(IntV(<<"1">>))
    /\ out = Ok(IntV(<<"1">>))

(***************************************************************************)
(* C11                                                                     *)
(***************************************************************************)
\* C11 (as claimed): Lookup is deterministic: a second call with the same
\* value, path and options returns the same result, whatever iteration
\* order the runtime chooses for the maps in that call.
C11_Deterministic ==
    pc = "done"
    => \A o \in Orders(in, opts.ExpandStringAsJSON) :
           Lookup(in, path, opts, o) = out

(***************************************************************************)
(* C12                                                                     *)
(***************************************************************************)
\* The value holds the text of a JSON object.
HoldsJSONObject(v) == v.kind = "String" /\ JSONUnmarshal(v.sc).ok

\* One iteration of the loop on a string holding JSON object text, with a
\* well-formed segment.
C12_Step ==
    (/\ pc = "loop"
     /\ i <= Len(segs)
     /\ HoldsJSONObject(value)
     /\ WellFormed(segs[i]))
    => IF opts.ExpandStringAsJSON
       THEN /\ parent' = JSONUnmarshal(value.sc).val
            /\ (IndexOf(segs[i]) = -1 /\ KeyOf(segs[i]) \in MapKeySet(parent'))
               => /\ res' = Ok(getRealValue(MapIndex(parent', KeyOf(segs[i]))))
                  /\ pc' = "loop"
       ELSE /\ parent' = value
            /\ res' = ErrKeyNotFound
            /\ pc' = "return"

\* C12: a string holding JSON object text is expanded into a map before the
\* next segment is matched exactly when ExpandStringAsJSON is set: with the
\* option the segment is matched on the decoded map and a plain segment
\* naming one of its keys resolves to the value stored under that key;
\* without it the segment is matched on the string and fails with
\* KeyNotFound.
C12_ExpansionIffOption == [][C12_Step]_vars

\* C12 witness: "J.S" on structFixture with the option set has returned the
\* string stored under S in the JSON text of J.
C12_Witness ==
    /\ pc = "done"
    /\ opts.ExpandStringAsJSON
    /\ in = structFixture
    /\ path = <<"J", ".", "S">>
    /\ parent = JSONUnmarshal(jsonText).val
    /\ out = Ok(Str(<<"a">>))

(***************************************************************************)
(* C13                                                                     *)
(***************************************************************************)
\* The segment contains both brackets.
BothBrackets(seg) ==
    StrIndex(seg, IndexOpenChar) # -1 /\ StrIndex(seg, IndexCloseChar) # -1
\* The text between the first '[' and the first ']' of seg, empty when the
\* closing bracket comes first.
Between(seg) ==
    LET start == StrIndex(seg, IndexOpenChar)
        end   == StrIndex(seg, IndexCloseChar)
    IN  IF start + 1 <= end THEN SubSeq(seg, start + 2, end) ELSE <<>>
\* t is the decimal text of a non-negative integer.
IsNonNegativeInteger(t) == Len(t) > 0 /\ \A j \in 1..Len(t) : IsDigit(t[j])

\* C13 (as claimed): the segment the loop has parsed, when it contains both
\* brackets, fails to parse with MalformedIndex unless the text between the
\* first '[' and the first ']' is a non-negative integer; on success the
\* index is that integer, reported as present.
C13_BracketedIndexParsing ==
    (Len(rest) >= 1 /\ BothBrackets(rest[1]))
    => LET p == parseIndex(rest[1])
       IN  IF IsNonNegativeInteger(Between(rest[1]))
           THEN /\ p.tag = "ok"
                /\ p.index = DigitsValue(Between(rest[1]))
                /\ p.index >= 0
           ELSE p.tag = "err"

(***************************************************************************)
(* C14                                                                     *)
(***************************************************************************)
\* The entries handed to the merger by an aggregation over parent in which
\* every element succeeded, and those of them that are present.
Entries == [j \in 1..VLen(parent) |-> ElementResult(j - 1).val]
Remaining == SelectSeq(Entries, IsValid)
\* The elements of the entries vs from position j on, concatenated.
RECURSIVE Concatenated(_, _)
Concatenated(vs, j) ==
    IF j > Len(vs) THEN <<>>
    ELSE vs[j].elems \o Concatenated(vs, j + 1)
\* The contents of the elements of a merged sequence.
Contents(v) == [k \in 1..VLen(v) |-> ValueOfInterface(v.elems[k])]

\* C14 (as claimed): the merger drops the absent entries and decides by the
\* first remaining one: a sequence or a map makes the output the
\* concatenation, in entry order, of the elements of every remaining entry;
\* anything else makes the output hold each remaining entry as one element;
\* the result is absent only when no entry remains.
C14_MergeByFirstEntry ==
    (/\ pc = "done"
     /\ agg
     /\ VLen(parent) > 0
     /\ \A j \in 0..(VLen(parent) - 1) : ~ElementFails(j))
    => /\ res.tag = "ok"
       /\ IsValid(res.val) <=> Len(Remaining) > 0
       /\ Len(Remaining) > 0
          => IF Remaining[1].kind \in {"Slice", "Map"}
             THEN res.val.elems = Concatenated(Remaining, 1)
             ELSE Contents(res.val) = Remaining

====
